---------------------------- MODULE Spec2Model ----------------------------
(***************************************************************************)
(* Model of src/index.js: an Express router with six handlers over two     *)
(* external stores, a Firestore collection 'tasks' and a Realtime Database *)
(* path 'chats'.                                                           *)
(*                                                                         *)
(* Every handler is async: it runs synchronously up to its single `await`  *)
(* of a store call (the _Begin actions, or _Reject when validation answers *)
(* 400 before any store call), and the store call together with the        *)
(* handler's continuation forms the second step (the _Complete actions).   *)
(* Handlers of different requests interleave at that suspension point.     *)
(*                                                                         *)
(* JSON values are records [k |-> kind, s |-> characters]; a character is  *)
(* its Unicode code point, so that Firestore's string order and            *)
(* JavaScript's toLowerCase are computed as the platform computes them.    *)
(* The wall clock (new Date(), Date.now()) is the variable now; it never   *)
(* runs backwards and may advance between any two reads.                   *)
(*                                                                         *)
(* A store call either fails (the catch branch answers 500 and the store   *)
(* is left as it was) or takes effect in one step.  The variable last      *)
(* holds the response sent last, together with what its handler read from  *)
(* the store; served counts the accepted requests and bounds a behaviour.  *)
(***************************************************************************)
EXTENDS Integers, Sequences, FiniteSets, Bags, TLC

(* ------------------------------ bounds -------------------------------- *)

\* Number of document ids the tasks collection can hand out.
MaxTasks == 2

\* Number of push keys the chats path can hand out.
MaxChats == 2

\* Largest reading of the millisecond clock.
MaxClock == 1

\* Number of handlers suspended at their store call at the same time.
MaxInflight == 2

\* Number of requests the server accepts in one behaviour.
MaxRequests == 3

TaskIds == 1 .. MaxTasks

(* --------------------------- JSON values ------------------------------ *)

Undef == [k |-> "undefined", s |-> << >>]
FalseV == [k |-> "false", s |-> << >>]
TrueV == [k |-> "true", s |-> << >>]
EmptyArr == [k |-> "array", s |-> << >>]
Str(chars) == [k |-> "string", s |-> chars]

IsString(v) == v.k = "string"

\* JavaScript truthiness, as used by `!title`, `if (search)`, `status || false`.
Truthy(v) ==
  CASE v.k = "string" -> Len(v.s) > 0
    [] v.k = "true" -> TRUE
    [] v.k = "array" -> TRUE
    [] OTHER -> FALSE

\* The code point of '\uf8ff', which the range query appends to the search term.
HighSentinel == 63743

\* The characters of the model are all cased letters:
\* 65 'A', 97 'a', 931 capital sigma, 962 final small sigma, 963 small sigma.
IsCased(c) == c \in {65, 97, 931, 962, 963}

\* String.prototype.toLowerCase on one character in its context: the simple
\* mappings of UnicodeData.txt and the Final_Sigma rule of SpecialCasing.txt.
LowerAt(chars, i) ==
  LET c == chars[i] IN
  CASE c = 65 -> 97
    [] c = 931 ->
         IF /\ i > 1
            /\ IsCased(chars[i - 1])
            /\ (i = Len(chars) \/ ~IsCased(chars[i + 1]))
         THEN 962
         ELSE 963
    [] OTHER -> c

ToLowerCase(chars) == [i \in 1 .. Len(chars) |-> LowerAt(chars, i)]

\* String.prototype.includes
Includes(hay, needle) ==
  \E i \in 0 .. (Len(hay) - Len(needle)) :
    SubSeq(hay, i + 1, i + Len(needle)) = needle

\* Firestore's order on string values (code point order), a <= b.
StrLeq(a, b) ==
  \/ /\ Len(a) <= Len(b)
     /\ \A i \in 1 .. Len(a) : a[i] = b[i]
  \/ \E i \in 1 .. Len(a) :
       /\ i <= Len(b)
       /\ \A j \in 1 .. (i - 1) : a[j] = b[j]
       /\ a[i] < b[i]

(* ----------------------------- requests ------------------------------- *)

SigmaMid == Str(<<97, 931, 97>>)
SigmaEnd == Str(<<97, 931>>)
UpperA == Str(<<65>>)
EmptyStr == Str(<< >>)

\* Request bodies of POST /to-do-list (title, description).
TaskBodies ==
  { [title |-> SigmaMid, description |-> SigmaEnd],
    [title |-> SigmaMid, description |-> UpperA],
    [title |-> SigmaMid, description |-> EmptyArr],
    [title |-> EmptyStr, description |-> UpperA],
    [title |-> UpperA, description |-> Undef] }

\* Request bodies of PUT /todo/:id (title, description, status; an omitted
\* member is undefined).
UpdateBodies ==
  { [title |-> UpperA, description |-> UpperA, status |-> Undef],
    [title |-> SigmaMid, description |-> EmptyArr, status |-> TrueV],
    [title |-> EmptyStr, description |-> UpperA, status |-> TrueV] }

\* Query strings of GET /list.
ListQueries ==
  { [sortBy |-> "none", order |-> "desc", search |-> Undef],
    [sortBy |-> "none", order |-> "desc", search |-> SigmaEnd],
    [sortBy |-> "timestamp", order |-> "asc", search |-> UpperA],
    [sortBy |-> "status", order |-> "desc", search |-> EmptyStr] }

\* Request bodies of POST /chat.
ChatBodies ==
  { [username |-> UpperA, message |-> SigmaEnd],
    [username |-> EmptyArr, message |-> UpperA],
    [username |-> EmptyStr, message |-> UpperA],
    [username |-> UpperA, message |-> Undef] }

(* ------------------------------- state -------------------------------- *)

VARIABLES
  tasks,     \* Firestore collection 'tasks': document id -> document
  issued,    \* document ids the collection has handed out so far
  chats,     \* Realtime Database children of 'chats': push key -> value
  nextKey,   \* the next push key (push keys are generated in increasing order)
  now,       \* the millisecond clock
  inflight,  \* bag of handlers suspended at their store call
  served,    \* number of requests accepted so far
  last       \* the response sent last, with what its handler saw

vars == <<tasks, issued, chats, nextKey, now, inflight, served, last>>

\* A function with one more point / one point less.
Put(f, key, val) == [x \in DOMAIN f \cup {key} |-> IF x = key THEN val ELSE f[x]]
Remove(f, key) == [x \in DOMAIN f \ {key} |-> f[x]]

Suspend(req) == inflight' = inflight (+) SetToBag({req})
Resume(req) == inflight' = inflight (-) SetToBag({req})
Suspended(op) == {r \in BagToSet(inflight) : r.op = op}
SuspendedCount(op) == BagCardinality([r \in Suspended(op) |-> inflight[r]])

\* The server takes a request while the model's budget lasts.
CanAccept == served < MaxRequests
CanSuspend == BagCardinality(inflight) < MaxInflight

Init ==
  /\ tasks = << >>
  /\ issued = {}
  /\ chats = << >>
  /\ nextKey = 1
  /\ now = 0
  /\ inflight = EmptyBag
  /\ served = 0
  /\ last = [op |-> "none", status |-> 0, error |-> "none"]

\* The clock advances on its own.
Tick ==
  /\ now < MaxClock
  /\ now' = now + 1
  /\ UNCHANGED <<tasks, issued, chats, nextKey, inflight, served, last>>

(* ----------------------- POST /to-do-list ----------------------------- *)

\* Mutant: the two tests joined by && (only a body missing both is refused).
CreateBodyValidEither(body) == Truthy(body.title) \/ Truthy(body.description)

\* if (!title || !description) return res.status(400)
CreateBodyValid(body) == Truthy(body.title) /\ Truthy(body.description)

\* The record built by the handler; createdAt and updatedAt are two
\* evaluations of new Date().
NewTask(body, created, updated) ==
  [ title |-> body.title,
    description |-> body.description,
    status |-> FalseV,
    createdAt |-> created,
    updatedAt |-> updated ]

\* The auto-generated id of a new document: one the collection has never
\* handed out (the least such id; no handler depends on which one it is).
AutoId(used) == CHOOSE id \in TaskIds \ used : \A other \in TaskIds \ used : id <= other

\* CollectionReference.add: a new document under an auto-generated id.
FirestoreAdd(docs, id, doc) == Put(docs, id, doc)

PostTask_Reject(body) ==
  /\ CanAccept
  /\ ~CreateBodyValid(body)
  /\ served' = served + 1
  /\ last' = [ op |-> "create", status |-> 400, error |-> "none", body |-> body,
               message |-> "Title and description are required" ]
  /\ UNCHANGED <<tasks, issued, chats, nextKey, now, inflight>>

PostTask_Begin(body) ==
  /\ CanAccept
  /\ CanSuspend
  /\ CreateBodyValid(body)
  /\ Cardinality(issued) + SuspendedCount("create") < MaxTasks
  /\ \E updated \in {now, now + 1} :
       /\ updated <= MaxClock
       /\ now' = updated
       /\ Suspend([op |-> "create", body |-> body, task |-> NewTask(body, now, updated)])
  /\ served' = served + 1
  /\ UNCHANGED <<tasks, issued, chats, nextKey, last>>

PostTask_Complete(req) ==
  /\ req \in Suspended("create")
  /\ Resume(req)
  /\ \/ /\ last' = [ op |-> "create", status |-> 500, error |-> "store",
                     body |-> req.body, message |-> "Server error" ]
        /\ UNCHANGED <<tasks, issued>>
     \/ LET id == AutoId(issued) IN
          /\ tasks' = FirestoreAdd(tasks, id, req.task)
          /\ issued' = issued \cup {id}
          /\ last' = [ op |-> "create", status |-> 201, error |-> "none",
                       body |-> req.body, message |-> "Task added successfully",
                       id |-> id, existing |-> DOMAIN tasks, added |-> tasks'[id] ]
  /\ UNCHANGED <<chats, nextKey, now, served>>

(* ------------------------- PUT /todo/:id ------------------------------ *)

\* if (!title || !description) return res.status(400)
UpdateBodyValid(body) == Truthy(body.title) /\ Truthy(body.description)

\* Mutant: the member passed on as given, without `|| false`.
StatusAsGiven(status) == status

\* status: status || false
StatusOrFalse(status) == IF Truthy(status) THEN status ELSE FalseV

\* The fields the handler hands to update().
UpdatedTask(body, updated) ==
  [ title |-> body.title,
    description |-> body.description,
    status |-> StatusOrFalse(body.status),
    updatedAt |-> updated ]

\* Mutant: set(..., {merge: true}) in place of update(): a missing document
\* is created.
FirestoreSetMerge(docs, id, fields) ==
  [ ok |-> TRUE,
    docs |-> Put(docs, id,
                 IF id \in DOMAIN docs
                 THEN [f \in DOMAIN docs[id] \cup DOMAIN fields |->
                         IF f \in DOMAIN fields THEN fields[f] ELSE docs[id][f]]
                 ELSE [f \in DOMAIN fields \cup {"createdAt"} |->
                         IF f \in DOMAIN fields THEN fields[f] ELSE fields.updatedAt]) ]

\* DocumentReference.update: overwrites the given fields of an existing
\* document and fails (NOT_FOUND) when there is none.
FirestoreUpdate(docs, id, fields) ==
  IF id \in DOMAIN docs
  THEN [ ok |-> TRUE,
         docs |-> [docs EXCEPT ![id] =
                     [f \in DOMAIN @ \cup DOMAIN fields |->
                        IF f \in DOMAIN fields THEN fields[f] ELSE @[f]]] ]
  ELSE [ok |-> FALSE, docs |-> docs]

PutTask_Reject(body) ==
  /\ CanAccept
  /\ ~UpdateBodyValid(body)
  /\ served' = served + 1
  /\ last' = [ op |-> "update", status |-> 400, error |-> "none", body |-> body,
               message |-> "Title and description are required" ]
  /\ UNCHANGED <<tasks, issued, chats, nextKey, now, inflight>>

PutTask_Begin(id, body) ==
  /\ CanAccept
  /\ CanSuspend
  /\ UpdateBodyValid(body)
  /\ Suspend([op |-> "update", id |-> id, body |-> body, fields |-> UpdatedTask(body, now)])
  /\ served' = served + 1
  /\ UNCHANGED <<tasks, issued, chats, nextKey, now, last>>

PutTask_Complete(req) ==
  /\ req \in Suspended("update")
  /\ Resume(req)
  /\ \/ /\ last' = [ op |-> "update", status |-> 500, error |-> "store", id |-> req.id,
                     body |-> req.body, message |-> "Server error" ]
        /\ UNCHANGED tasks
     \/ LET res == FirestoreUpdate(tasks, req.id, req.fields) IN
        /\ tasks' = res.docs
        /\ last' = IF res.ok
                   THEN [ op |-> "update", status |-> 200, error |-> "none", id |-> req.id,
                          body |-> req.body, message |-> "Task updated successfully",
                          before |-> {tasks[id] : id \in DOMAIN tasks \cap {req.id}} ]
                   ELSE [ op |-> "update", status |-> 500, error |-> "not-found",
                          id |-> req.id, body |-> req.body, message |-> "Server error" ]
  /\ UNCHANGED <<issued, chats, nextKey, now, served>>

(* ------------------------ DELETE /list/:id ---------------------------- *)

\* Mutant: delete() with the precondition {exists: true}.
FirestoreDeleteExisting(docs, id) ==
  [ok |-> id \in DOMAIN docs, docs |-> Remove(docs, id)]

\* DocumentReference.delete: succeeds whether or not the document exists.
FirestoreDelete(docs, id) == [ok |-> TRUE, docs |-> Remove(docs, id)]

DeleteTask_Begin(id) ==
  /\ CanAccept
  /\ CanSuspend
  /\ Suspend([op |-> "delete", id |-> id])
  /\ served' = served + 1
  /\ UNCHANGED <<tasks, issued, chats, nextKey, now, last>>

DeleteTask_Complete(req) ==
  /\ req \in Suspended("delete")
  /\ Resume(req)
  /\ \/ /\ last' = [ op |-> "delete", status |-> 500, error |-> "store", id |-> req.id,
                     message |-> "Server error" ]
        /\ UNCHANGED tasks
     \/ LET res == FirestoreDelete(tasks, req.id) IN
        /\ tasks' = res.docs
        /\ last' = IF res.ok
                   THEN [ op |-> "delete", status |-> 200, error |-> "none", id |-> req.id,
                          message |-> "Task deleted successfully",
                          existed |-> req.id \in DOMAIN tasks ]
                   ELSE [ op |-> "delete", status |-> 500, error |-> "not-found",
                          id |-> req.id, message |-> "Server error" ]
  /\ UNCHANGED <<issued, chats, nextKey, now, served>>

(* ----------------------------- GET /list ------------------------------ *)

\* Mutant: search is not taken from the query string.
QuerySearchDropped(query) == Undef

\* const { sortBy, order = 'desc', search } = req.query
QuerySearch(query) == query.search

\* where('title', '>=', search).where('title', '<=', search + '\uf8ff'):
\* the ids of the documents whose title is a string in that range; without a
\* search term the whole collection.
BaseQuery(docs, search) ==
  IF Truthy(search)
  THEN { id \in DOMAIN docs :
           /\ IsString(docs[id].title)
           /\ StrLeq(search.s, docs[id].title.s)
           /\ StrLeq(docs[id].title.s, Append(search.s, HighSentinel)) }
  ELSE DOMAIN docs

\* Firestore returns a range query on title ordered by title and then by
\* document id, and an unfiltered one by document id.
ComesFirst(docs, search, a, b) ==
  IF Truthy(search) /\ docs[a].title # docs[b].title
  THEN StrLeq(docs[a].title.s, docs[b].title.s)
  ELSE a <= b

RECURSIVE SnapshotOrder(_, _, _)
SnapshotOrder(docs, search, ids) ==
  IF ids = {} THEN << >>
  ELSE LET first == CHOOSE a \in ids : \A b \in ids : ComesFirst(docs, search, a, b)
       IN <<first>> \o SnapshotOrder(docs, search, ids \ {first})

\* The condition of the forEach callback, for a search term that is present.
MatchesSearch(task, search) ==
  \/ Includes(ToLowerCase(task.title.s), ToLowerCase(search.s))
  \/ Includes(ToLowerCase(task.description.s), ToLowerCase(search.s))

\* The callback throws a TypeError when it reaches toLowerCase on a value
\* that is not a string (|| evaluates left to right and stops at a match).
CallbackThrows(task, search) ==
  /\ Truthy(search)
  /\ \/ ~IsString(task.title)
     \/ /\ ~Includes(ToLowerCase(task.title.s), ToLowerCase(search.s))
        /\ ~IsString(task.description)

KeepsTask(task, search) == ~Truthy(search) \/ MatchesSearch(task, search)

\* The comparator handed to Array.prototype.sort (booleans subtract as 0/1).
StatusNumber(v) == IF v = TrueV THEN 1 ELSE 0

Compare(a, b, sortBy, order) ==
  CASE sortBy = "timestamp" ->
         IF order = "asc" THEN a.createdAt - b.createdAt ELSE b.createdAt - a.createdAt
    [] sortBy = "status" ->
         IF a.status = b.status THEN 0
         ELSE IF order = "asc"
              THEN StatusNumber(a.status) - StatusNumber(b.status)
              ELSE StatusNumber(b.status) - StatusNumber(a.status)
    [] OTHER -> 0

\* Array.prototype.sort is stable: an element goes behind every element
\* that does not compare greater than it.
RECURSIVE SortTasks(_, _, _)
SortTasks(list, sortBy, order) ==
  IF Len(list) <= 1 THEN list
  ELSE LET x == list[Len(list)]
           front == SortTasks(SubSeq(list, 1, Len(list) - 1), sortBy, order)
           n == Cardinality({i \in 1 .. Len(front) : Compare(front[i], x, sortBy, order) <= 0})
       IN SubSeq(front, 1, n) \o <<x>> \o SubSeq(front, n + 1, Len(front))

\* { id: doc.id, ...doc.data() }
TaskWithId(docs, id) ==
  [f \in {"id"} \cup DOMAIN docs[id] |-> IF f = "id" THEN id ELSE docs[id][f]]

\* The handler from the snapshot on: 404, the filter loop, the sort, 200.
ListResponse(docs, query) ==
  LET search == QuerySearch(query)
      fetched == BaseQuery(docs, search)
      order == SnapshotOrder(docs, search, fetched)
      all == [i \in 1 .. Len(order) |-> TaskWithId(docs, order[i])]
      kept == SelectSeq(all, LAMBDA t : KeepsTask(t, search))
  IN IF fetched = {}
     THEN [ op |-> "list", status |-> 404, error |-> "none", query |-> query,
            message |-> "No tasks found", fetched |-> fetched ]
     ELSE IF \E i \in 1 .. Len(all) : CallbackThrows(all[i], search)
     THEN [ op |-> "list", status |-> 500, error |-> "type-error", query |-> query,
            message |-> "Server error", fetched |-> fetched ]
     ELSE [ op |-> "list", status |-> 200, error |-> "none", query |-> query,
            tasks |-> SortTasks(kept, query.sortBy, query.order),
            fetched |-> fetched, total |-> Cardinality(DOMAIN docs) ]

ListTasks_Begin(query) ==
  /\ CanAccept
  /\ CanSuspend
  /\ Suspend([op |-> "list", query |-> query])
  /\ served' = served + 1
  /\ UNCHANGED <<tasks, issued, chats, nextKey, now, last>>

ListTasks_Complete(req) ==
  /\ req \in Suspended("list")
  /\ Resume(req)
  /\ \/ last' = [ op |-> "list", status |-> 500, error |-> "store", query |-> req.query,
                  message |-> "Server error", fetched |-> {} ]
     \/ last' = ListResponse(tasks, req.query)
  /\ UNCHANGED <<tasks, issued, chats, nextKey, now, served>>

(* ----------------------------- POST /chat ----------------------------- *)

\* if (!username || !message) return res.status(400)
ChatBodyValid(body) == Truthy(body.username) /\ Truthy(body.message)

\* The message built by the handler.
NewMessage(body, timestamp) ==
  [username |-> body.username, message |-> body.message, timestamp |-> timestamp]

\* Reference.set: the Realtime Database keeps no empty array or object, a
\* member with such a value is not stored.
RtdbSet(tree, key, value) ==
  Put(tree, key,
      [f \in {g \in DOMAIN value : g = "timestamp" \/ value[g].k # "array"} |-> value[f]])

PostChat_Reject(body) ==
  /\ CanAccept
  /\ ~ChatBodyValid(body)
  /\ served' = served + 1
  /\ last' = [ op |-> "chat", status |-> 400, error |-> "none", body |-> body,
               message |-> "Username and message are required" ]
  /\ UNCHANGED <<tasks, issued, chats, nextKey, now, inflight>>

\* push() makes the key at once; set() is the awaited store call.
PostChat_Begin(body) ==
  /\ CanAccept
  /\ CanSuspend
  /\ ChatBodyValid(body)
  /\ nextKey <= MaxChats
  /\ nextKey' = nextKey + 1
  /\ Suspend([op |-> "chat", key |-> nextKey, body |-> body,
              newMessage |-> NewMessage(body, now)])
  /\ served' = served + 1
  /\ UNCHANGED <<tasks, issued, chats, now, last>>

PostChat_Complete(req) ==
  /\ req \in Suspended("chat")
  /\ Resume(req)
  /\ \/ /\ last' = [ op |-> "chat", status |-> 500, error |-> "store", body |-> req.body,
                     message |-> "Server error" ]
        /\ UNCHANGED chats
     \/ /\ chats' = RtdbSet(chats, req.key, req.newMessage)
        /\ last' = [ op |-> "chat", status |-> 201, error |-> "none", body |-> req.body,
                     message |-> "Message sent successfully", id |-> req.key ]
  /\ UNCHANGED <<tasks, issued, nextKey, now, served>>

(* ----------------------------- GET /chats ----------------------------- *)

\* orderByChild('timestamp'): by timestamp, children with equal timestamps
\* by key.
ChildBefore(tree, a, b) ==
  \/ tree[a].timestamp < tree[b].timestamp
  \/ tree[a].timestamp = tree[b].timestamp /\ a <= b

\* Mutant: the children in descending order.
RECURSIVE OrderDescending(_, _)
OrderDescending(tree, keys) ==
  IF keys = {} THEN << >>
  ELSE LET first == CHOOSE a \in keys : \A b \in keys : ChildBefore(tree, b, a)
       IN <<first>> \o OrderDescending(tree, keys \ {first})

RECURSIVE OrderByTimestamp(_, _)
OrderByTimestamp(tree, keys) ==
  IF keys = {} THEN << >>
  ELSE LET first == CHOOSE a \in keys : \A b \in keys : ChildBefore(tree, a, b)
       IN <<first>> \o OrderByTimestamp(tree, keys \ {first})

\* { id: childSnapshot.key, ...childSnapshot.val() }
MessageWithId(tree, key) ==
  [f \in {"id"} \cup DOMAIN tree[key] |-> IF f = "id" THEN key ELSE tree[key][f]]

\* The handler from the snapshot on.
ChatsResponse(tree) ==
  LET order == OrderByTimestamp(tree, DOMAIN tree) IN
  IF DOMAIN tree = {}
  THEN [ op |-> "chats", status |-> 404, error |-> "none",
         message |-> "No chat messages found", stored |-> tree ]
  ELSE [ op |-> "chats", status |-> 200, error |-> "none",
         messages |-> [i \in 1 .. Len(order) |-> MessageWithId(tree, order[i])],
         stored |-> tree ]

GetChats_Begin ==
  /\ CanAccept
  /\ CanSuspend
  /\ Suspend([op |-> "chats"])
  /\ served' = served + 1
  /\ UNCHANGED <<tasks, issued, chats, nextKey, now, last>>

GetChats_Complete(req) ==
  /\ req \in Suspended("chats")
  /\ Resume(req)
  /\ \/ last' = [ op |-> "chats", status |-> 500, error |-> "store",
                  message |-> "Server error", stored |-> chats ]
     \/ last' = ChatsResponse(chats)
  /\ UNCHANGED <<tasks, issued, chats, nextKey, now, served>>

(* --------------------------- specification ---------------------------- *)

NextTasks ==
  \/ Tick
  \/ \E body \in TaskBodies : PostTask_Reject(body)
  \/ \E body \in TaskBodies : PostTask_Begin(body)
  \/ \E req \in BagToSet(inflight) : PostTask_Complete(req)
  \/ \E body \in UpdateBodies : PutTask_Reject(body)
  \/ \E id \in TaskIds, body \in UpdateBodies : PutTask_Begin(id, body)
  \/ \E req \in BagToSet(inflight) : PutTask_Complete(req)
  \/ \E id \in TaskIds : DeleteTask_Begin(id)
  \/ \E req \in BagToSet(inflight) : DeleteTask_Complete(req)
  \/ \E query \in ListQueries : ListTasks_Begin(query)
  \/ \E req \in BagToSet(inflight) : ListTasks_Complete(req)

NextChat ==
  \/ Tick
  \/ \E body \in ChatBodies : PostChat_Reject(body)
  \/ \E body \in ChatBodies : PostChat_Begin(body)
  \/ \E req \in BagToSet(inflight) : PostChat_Complete(req)
  \/ GetChats_Begin
  \/ \E req \in BagToSet(inflight) : GetChats_Complete(req)

Next == NextTasks \/ NextChat

Spec == Init /\ [][Next]_vars

\* The endpoints that validate their body: create-task, update-task, post-chat.
NextValidated ==
  \/ Tick
  \/ \E body \in TaskBodies : PostTask_Reject(body)
  \/ \E body \in TaskBodies : PostTask_Begin(body)
  \/ \E req \in BagToSet(inflight) : PostTask_Complete(req)
  \/ \E body \in UpdateBodies : PutTask_Reject(body)
  \/ \E id \in TaskIds, body \in UpdateBodies : PutTask_Begin(id, body)
  \/ \E req \in BagToSet(inflight) : PutTask_Complete(req)
  \/ \E body \in ChatBodies : PostChat_Reject(body)
  \/ \E body \in ChatBodies : PostChat_Begin(body)
  \/ \E req \in BagToSet(inflight) : PostChat_Complete(req)

SpecValidated == Init /\ [][NextValidated]_vars

\* The task endpoints alone, and the chat endpoints alone.
SpecTasks == Init /\ [][NextTasks]_vars

SpecChat == Init /\ [][NextChat]_vars

(* ------------------------------ claims -------------------------------- *)

NonEmptyString(v) == IsString(v) /\ Len(v.s) > 0

\* The handler of req is the one that resumes in this step.
Resumes(req) == inflight' = inflight (-) SetToBag({req})

\* C1: every persisted task has a non-empty title and a non-empty
\* description.
C1_PersistedTasksNonEmpty ==
  \A id \in DOMAIN tasks :
    NonEmptyString(tasks[id].title) /\ NonEmptyString(tasks[id].description)

\* A required member of the request is missing or falsy.
LacksRequired(op, body) ==
  CASE op \in {"create", "update"} -> ~Truthy(body.title) \/ ~Truthy(body.description)
    [] op = "chat" -> ~Truthy(body.username) \/ ~Truthy(body.message)
    [] OTHER -> FALSE

\* C2: a create-task, update-task or post-chat request with a missing or
\* falsy required member is answered 400 and never reaches a store call: no
\* such request is ever suspended at one, every answer to one is 400, a
\* request answered without a store call is answered 400 with the tasks and
\* the chats left as they were, and a step that issues or completes a store
\* call sends no 400.
C2_RejectedWithoutWrite ==
  [][ /\ \A req \in BagToSet(inflight') :
           req.op \in {"create", "update", "chat"} => ~LacksRequired(req.op, req.body)
      /\ last'.op \in {"create", "update", "chat"} =>
           (LacksRequired(last'.op, last'.body) <=> last'.status = 400)
      /\ (served' # served /\ inflight' = inflight) =>
           (last'.status = 400 /\ tasks' = tasks /\ chats' = chats)
      /\ inflight' # inflight => (last'.status = 400 => last' = last)
    ]_vars

\* With a task and a message stored, a post-chat with an empty username was
\* answered 400.
C2_Witness ==
  /\ last.op = "chat"
  /\ last.status = 400
  /\ last.body.username = EmptyStr
  /\ DOMAIN tasks # {}
  /\ DOMAIN chats # {}

\* C3: a create-task answered 201 returns an id no existing task had, and the
\* record it added has status false and createdAt equal to updatedAt.
C3_CreatedRecord ==
  (last.op = "create" /\ last.status = 201) =>
    /\ last.id \notin last.existing
    /\ last.added.status = FalseV
    /\ last.added.createdAt = last.added.updatedAt

\* C4: an update-task that succeeds finds its task, sets title, description
\* and updatedAt from the request and status to the request's status or,
\* when the body omits it, to false, and leaves createdAt and every other
\* task as they were.
C4_UpdateOverwrites ==
  [][ \A req \in Suspended("update") :
        (Resumes(req) /\ last'.op = "update" /\ last'.status = 200) =>
          /\ req.id \in DOMAIN tasks
          /\ DOMAIN tasks' = DOMAIN tasks
          /\ tasks'[req.id].title = req.body.title
          /\ tasks'[req.id].description = req.body.description
          /\ tasks'[req.id].status = (IF req.body.status = TrueV THEN TrueV ELSE FalseV)
          /\ (req.body.status = Undef => tasks'[req.id].status = FalseV)
          /\ tasks'[req.id].updatedAt = req.fields.updatedAt
          /\ tasks'[req.id].createdAt = tasks[req.id].createdAt
          /\ \A other \in DOMAIN tasks \ {req.id} : tasks'[other] = tasks[other]
    ]_vars

\* An update without status succeeded on a task whose status was true.
C4_Witness ==
  /\ last.op = "update"
  /\ last.status = 200
  /\ last.body.status = Undef
  /\ \E doc \in last.before : doc.status = TrueV
  /\ tasks[last.id].status = FalseV

\* The same letter, whatever its case (capital, small and final sigma are one
\* letter).
SameLetter(c, d) ==
  LET Fold(x) == CASE x = 65 -> 97 [] x \in {931, 962} -> 963 [] OTHER -> x
  IN Fold(c) = Fold(d)

\* The string value v contains the string s, case-insensitively.
ContainsIgnoringCase(v, s) ==
  /\ IsString(v)
  /\ \E i \in 0 .. (Len(v.s) - Len(s.s)) :
       \A j \in 1 .. Len(s.s) : SameLetter(v.s[i + j], s.s[j])

\* C5: with a non-empty search term, every task of a 200 answer of list-tasks
\* contains the term in its title or its description, case-insensitively.
C5_ListedTasksMatch ==
  (last.op = "list" /\ last.status = 200 /\ Truthy(last.query.search)) =>
    \A i \in 1 .. Len(last.tasks) :
      \/ ContainsIgnoringCase(last.tasks[i].title, last.query.search)
      \/ ContainsIgnoringCase(last.tasks[i].description, last.query.search)

\* A search returned a task and left another stored task out.
C5_Witness ==
  /\ last.op = "list"
  /\ last.status = 200
  /\ Truthy(last.query.search)
  /\ Len(last.tasks) >= 1
  /\ Len(last.tasks) < last.total

\* C6: when the store answers the base query, list-tasks responds 404 exactly
\* when the query returned no document, and 200 otherwise.
C6_ListStatus ==
  (last.op = "list" /\ last.error # "store") =>
    /\ last.status = 404 <=> last.fetched = {}
    /\ last.fetched # {} => last.status = 200

\* C7: a delete-task whose store call succeeds is answered 200 whether or not
\* the task exists; it removes that id and nothing else, and with the id
\* absent the collection stays as it was.
C7_DeleteIdempotent ==
  [][ \A req \in Suspended("delete") :
        (Resumes(req) /\ last'.op = "delete" /\ last'.error # "store") =>
          /\ last'.status = 200
          /\ DOMAIN tasks' = DOMAIN tasks \ {req.id}
          /\ \A other \in DOMAIN tasks' : tasks'[other] = tasks[other]
          /\ (req.id \notin DOMAIN tasks => tasks' = tasks)
    ]_vars

\* The delete of an id that was absent was answered 200, beside a stored task.
C7_Witness ==
  /\ last.op = "delete"
  /\ last.status = 200
  /\ ~last.existed
  /\ DOMAIN tasks # {}

\* The child has member f, and it is a non-empty string.
HasNonEmpty(child, f) == f \in DOMAIN child /\ NonEmptyString(child[f])

\* C8: every stored chat message has a non-empty username and a non-empty
\* message, and no step changes or removes a stored message.
C8_ChatsAppendOnly ==
  [][ /\ \A key \in DOMAIN chats' :
           HasNonEmpty(chats'[key], "username") /\ HasNonEmpty(chats'[key], "message")
      /\ \A key \in DOMAIN chats : key \in DOMAIN chats' /\ chats'[key] = chats[key]
    ]_vars

\* C9: when the store answers, list-messages responds 404 exactly when no
\* message is stored, and otherwise 200 with every stored message once, under
\* its key as id, in non-decreasing timestamp order, a message pushed earlier
\* before one pushed later.
C9_ChatsListing ==
  (last.op = "chats" /\ last.error # "store") =>
    /\ last.status = 404 <=> DOMAIN last.stored = {}
    /\ DOMAIN last.stored # {} =>
         /\ last.status = 200
         /\ Len(last.messages) = Cardinality(DOMAIN last.stored)
         /\ {last.messages[i].id : i \in 1 .. Len(last.messages)} = DOMAIN last.stored
         /\ \A i \in 1 .. Len(last.messages) :
              LET m == last.messages[i] IN
              /\ DOMAIN m = DOMAIN last.stored[m.id] \cup {"id"}
              /\ \A f \in DOMAIN last.stored[m.id] : m[f] = last.stored[m.id][f]
         /\ \A i, j \in 1 .. Len(last.messages) :
              i < j => /\ last.messages[i].timestamp <= last.messages[j].timestamp
                       /\ last.messages[i].id < last.messages[j].id

\* Two messages posted at different times were listed.
C9_Witness ==
  /\ last.op = "chats"
  /\ last.status = 200
  /\ Len(last.messages) = 2
  /\ last.messages[1].timestamp < last.messages[2].timestamp

\* C10: an update-task whose id is not in the collection when its store call
\* runs is answered 500 and changes nothing; an id enters the collection only
\* by a create-task, as an id never handed out before, so an id that was
\* removed never comes back.
C10_UpdateNeverCreates ==
  [][ /\ \A req \in Suspended("update") :
           (Resumes(req) /\ last'.op = "update" /\ req.id \notin DOMAIN tasks) =>
             (last'.status = 500 /\ tasks' = tasks)
      /\ \A id \in DOMAIN tasks' \ DOMAIN tasks :
           /\ id \notin issued
           /\ \E req \in Suspended("create") : Resumes(req) /\ tasks'[id] = req.task
      /\ \A id \in issued \ DOMAIN tasks : id \notin DOMAIN tasks'
    ]_vars

\* An update was answered 500 because its task had been deleted.
C10_Witness ==
  /\ last.op = "update"
  /\ last.status = 500
  /\ last.error = "not-found"
  /\ last.id \in issued

=============================================================================
